---- MODULE Spec2Model ----
(***************************************************************************)
(* Model of the image-scraper HTTP service.  The repository holds nine     *)
(* variants of the same server; each behaviour of the model runs one of    *)
(* them (variable "variant").  A request to GET /api/album is a small      *)
(* process: cache read, a bounded retry loop of scrape attempts (browser   *)
(* launch, search page, gallery page), then the cache write and the        *)
(* response.  Every await of the handler at which another request can run  *)
(* separates two actions.  The other routes (/api/nsfw, /api/bulk-download, *)
(* /api/cache, /downloads/:model) run as a second kind of process, "ep".   *)
(* Spec runs album requests one after the other; SpecConc lets two of them *)
(* overlap; SpecSite and SpecBulk add the other routes; SpecFault adds     *)
(* rejected filesystem calls; SpecScroll runs the scroll loop of a page.   *)
(***************************************************************************)
EXTENDS Integers, Sequences, FiniteSets, TLC

VARIABLES
  variant,    \* which of the server files is running
  conc,       \* how many requests the event loop has in flight at most
  render,     \* whether process.env.RENDER is set
  cache,      \* the files under the cache directory
  stored,     \* history: for each cache file, the (model, index) of the request that wrote it
  downloads,  \* the files under the downloads directory
  served,     \* number of requests received so far
  rq,         \* the activations of the album handler
  ep,         \* the activation of another route's handler
  scroll      \* the scroll-to-bottom loop running in the page, taken alone

vars == <<variant, conc, render, cache, stored, downloads, served, rq, ep, scroll>>

(***************************************************************************)
(* Bounds of the model.                                                    *)
(***************************************************************************)
MaxRequests == 2
MaxAnchors == 2
MaxImgs == 2
MaxGallery == 21
MaxFaults == 1
MaxScreens == 3
MaxGrow == 2

(***************************************************************************)
(* The variants of the server, named by the file and the first line of     *)
(* their /api/album route.                                                 *)
(***************************************************************************)
P0 == "part_000:36"
P1A == "part_001:62"
P1B == "part_001:413"
P2 == "part_002:34"
P3 == "part_003:124"
SA == "server.js:78"
SB == "server.js:721"
P4A == "part_004:69"
P4B == "part_004:710"

Variants == {P0, P1A, P1B, P2, P3, SA, SB, P4A, P4B}

Reqs == 1..2

(***************************************************************************)
(* Request parameters.  A route parameter is a string, modelled as a       *)
(* sequence of one-character strings so that parseInt can be computed.     *)
(***************************************************************************)
Models == {<<"a">>}
Indices == {<<"1">>, <<"2">>, <<"0">>, <<"x">>}

Digits == <<"0", "1", "2", "3", "4", "5", "6", "7", "8", "9">>

IsDigit(c) == \E d \in 1..10 : Digits[d] = c

DigitVal(c) == (CHOOSE d \in 1..10 : Digits[d] = c) - 1

(* JavaScript numbers that the handlers compute with: an integer or NaN. *)
NaN == [nan |-> TRUE, v |-> 0]

Num(n) == [nan |-> FALSE, v |-> n]

RECURSIVE DigitPrefix(_, _)
DigitPrefix(s, acc) ==
  IF s = <<>> \/ ~IsDigit(Head(s))
    THEN acc
    ELSE DigitPrefix(Tail(s), Append(acc, Head(s)))

RECURSIVE DigitsValue(_, _)
DigitsValue(ds, acc) ==
  IF ds = <<>> THEN acc ELSE DigitsValue(Tail(ds), 10 * acc + DigitVal(Head(ds)))

(* parseInt(index, 10): optional sign, then the longest digit prefix. *)
ParseInt(s) ==
  LET neg == s # <<>> /\ Head(s) = "-"
      signed == s # <<>> /\ Head(s) \in {"-", "+"}
      body == IF signed THEN Tail(s) ELSE s
      ds == DigitPrefix(body, <<>>)
  IN  IF ds = <<>>
        THEN NaN
        ELSE Num(IF neg THEN 0 - DigitsValue(ds, 0) ELSE DigitsValue(ds, 0))

(* Math.max(0, Math.min(len - 1, parseInt(index) - 1)); NaN propagates. *)
ClampIndex(len, n) ==
  IF n.nan THEN NaN
  ELSE LET lo == IF len - 1 < n.v - 1 THEN len - 1 ELSE n.v - 1
       IN  Num(IF lo < 0 THEN 0 ELSE lo)

(* parseInt(req.params.index) || 1 : NaN and 0 are falsy. *)
IndexOrOne(s) ==
  LET n == ParseInt(s) IN IF n.nan \/ n.v = 0 THEN 1 ELSE n.v

(***************************************************************************)
(* What differs between the variants.                                      *)
(***************************************************************************)

(* The retry cap of the album handler; part_003 calls scrapeImages once. *)
maxAttempts(v) ==
  IF v \in {P0, P1A, P1B, P2} THEN 3
  ELSE IF v = P3 THEN 1
  ELSE 2

(* The variants whose album handler reads and writes the JSON cache. *)
UsesCache(v) == v # P3

(* Variants that reject an index outside [1, links.length] with 400. *)
ValidatesIndex(v) == v \in {P0, P1A, P1B, P2, P4A}

(* Variants that clamp the index into the discovered range instead. *)
ClampsIndex(v) == v \in {SA, SB, P4B}

(* Variants that throw when the search page yields no gallery link. *)
ThrowsOnNoLinks(v) == v \in {P3, SA, SB, P4B}

(* The 400 path closes the browser before it responds. *)
ClosesOn400(v) == v # P4A

(* Mutant of WritesEmpty: every caching variant writes the sentinel. *)
WritesEmpty_All(v) == v # P3

(* Variants that write the empty list to the cache when nothing was found. *)
WritesEmpty(v) == v \in {P0, P1A, P1B, P2, P4A}

(* part_001 (first variant) deletes an empty cache file before scraping. *)
UnlinksEmpty(v) == v = P1A

(* part_001 (first variant) re-scans the search page when the gallery
   gave no image. *)
SearchFallback(v) == v = P1A

(* Mutant of DemoFallback: no variant substitutes placeholders. *)
DemoFallback_Never(v) == FALSE

(* Variants that substitute placeholder images when the last attempt threw. *)
DemoFallback(v) == v \in {SB, P4B}

(* The key a request addresses its cache entry by: the route parameters,
   except in part_003, which parses the index first. *)
CacheKey(v, model, index) ==
  IF v = P3 THEN <<model, IndexOrOne(index)>> ELSE <<model, index>>

(* Cache files are cache/<model>/images_<index>.json in the part_00x
   variants and cache/<model>_<index>.json in the others. *)
CacheFile(v, model, index) ==
  IF v \in {SA, SB, P4B}
    THEN <<"cache", model \o <<"_">> \o index \o <<".json">>>>
    ELSE <<"cache", model, <<"images_">> \o index \o <<".json">>>>

(***************************************************************************)
(* The scraped site.  An anchor of the search page is described by the     *)
(* substrings of its href that the selectors and filters test; an image    *)
(* source by its host, extension and query string.                         *)
(***************************************************************************)
A1 == [id |-> "g1", site |-> TRUE, dated |-> TRUE, gallery |-> FALSE, page |-> FALSE]
A2 == [id |-> "g2", site |-> TRUE, dated |-> FALSE, gallery |-> TRUE, page |-> FALSE]
A3 == [id |-> "p2", site |-> TRUE, dated |-> FALSE, gallery |-> FALSE, page |-> TRUE]

Anchors == {A1, A2, A3}

U1 == [host |-> "ahottie.net", file |-> "p1", ext |-> "jpg", query |-> ""]
U2 == [host |-> "ahottie.net", file |-> "p2", ext |-> "png", query |-> "v=1"]
U3 == [host |-> "cdn.example.com", file |-> "p3", ext |-> "bmp", query |-> ""]

Srcs == {U1, U2, U3}

SeqsUpTo(S, n) == UNION {[1..k -> S] : k \in 0..n}

SearchPages == SeqsUpTo(Anchors, MaxAnchors)

(* A gallery page with many distinct images, more than the slices keep. *)
LongPage ==
  [i \in 1..MaxGallery |->
     [host |-> "ahottie.net", file |-> "n" \o ToString(i), ext |-> "jpg", query |-> ""]]

GalleryPages == SeqsUpTo(Srcs, MaxImgs) \cup {LongPage}

(* Mutant of Dedup: every occurrence is kept. *)
Dedup_KeepsAll(s, acc) == acc \o s

(* [...new Set(list)] : first occurrences, in order. *)
RECURSIVE Dedup(_, _)
Dedup(s, acc) ==
  IF s = <<>> THEN acc
  ELSE IF \E i \in 1..Len(acc) : acc[i] = Head(s)
    THEN Dedup(Tail(s), acc)
    ELSE Dedup(Tail(s), Append(acc, Head(s)))

(* list.slice(0, n) *)
Slice(s, n) == IF Len(s) <= n THEN s ELSE SubSeq(s, 1, n)

(* Which anchors the selectors and href filters of a variant keep. *)
KeepsAnchor(v, a) ==
  CASE v \in {P0, P1A, P1B} -> a.site /\ ~a.page
    [] v = P2 -> ~a.page
    [] v = P3 -> a.gallery
    [] v = SA -> a.site /\ (a.dated \/ a.gallery)
    [] v = SB -> a.site /\ a.dated
    [] v = P4A -> a.site /\ ~a.page /\ (a.dated \/ a.gallery)
    [] v = P4B -> a.site /\ ~a.page /\ (a.dated \/ a.gallery)

(* The selectors a variant queries, in the order it queries them.  A
   variant with one selector (or one selector list handed to a single
   querySelectorAll) has one entry. *)
Selectors(v) ==
  CASE v \in {P1A, P1B, P2} -> <<"dated", "gallery", "site">>
    [] v = SA -> <<"dated", "gallery">>
    [] v = SB -> <<"dated">>
    [] v = P3 -> <<"gallery">>
    [] v \in {P0, P4A} -> <<"site">>
    [] v = P4B -> <<"listed">>

Matches(sel, a) ==
  CASE sel = "dated" -> a.dated
    [] sel = "gallery" -> a.gallery
    [] sel = "site" -> a.site
    [] sel = "listed" -> a.dated \/ a.gallery

(* selectors.forEach(sel => document.querySelectorAll(sel).forEach(push)):
   the matches of the first selector in document order, then those of the
   next one. *)
RECURSIVE Gather(_, _)
Gather(sels, anchors) ==
  IF sels = <<>> THEN <<>>
  ELSE SelectSeq(anchors, LAMBDA a : Matches(Head(sels), a))
         \o Gather(Tail(sels), anchors)

(* The gallery link list a variant builds from the anchors of a page. *)
GalleryLinks(v, anchors) ==
  LET kept == Gather(Selectors(v), SelectSeq(anchors, LAMBDA a : KeepsAnchor(v, a)))
  IN  CASE v \in {P0, P1A, P1B, P2, P4A} -> Dedup(kept, <<>>)
        [] v = P3 -> kept
        [] v = SA -> Slice(Dedup(kept, <<>>), 15)
        [] v = SB -> Slice(kept, 10)
        [] v = P4B -> Slice(Dedup(kept, <<>>), 20)

ImageExts(v) ==
  IF v \in {SA, SB}
    THEN IF v = SA THEN {"jpg", "jpeg", "png", "webp", "gif"}
                   ELSE {"jpg", "jpeg", "png", "webp"}
    ELSE {"jpg", "jpeg", "png", "gif", "webp", "bmp"}

(* The extension test is anchored at the end of the URL except in the
   server.js variants; part_003 keeps every non-empty src. *)
KeepsSrc(v, u) ==
  CASE v \in {P0, P2} -> u.ext \in ImageExts(v) /\ u.query = ""
    [] v \in {P1A, P1B, P4A, P4B} ->
         /\ u.ext \in ImageExts(v) /\ u.query = ""
         /\ u.host \in {"ahottie.net", "imgbox.com"}
    [] v \in {SA, SB} -> u.ext \in ImageExts(v)
    [] v = P3 -> TRUE

(* The image URL list a variant extracts from the sources of a page. *)
ImageUrls(v, srcs) ==
  LET kept == SelectSeq(srcs, LAMBDA u : KeepsSrc(v, u))
  IN  CASE v \in {P0, P1A, P1B, P2} -> Slice(kept, 50)
        [] v = P3 -> kept
        [] v = SA -> Slice(Dedup(kept, <<>>), 20)
        [] v = SB -> Slice(kept, 10)
        [] v = P4A -> Slice(kept, 20)
        [] v = P4B -> Slice(Dedup(kept, <<>>), 30)

(* url.split('.').pop().split('?')[0] || 'jpg' *)
FileExt(u) == IF u.ext = "" THEN "jpg" ELSE u.ext

(* Mutant of FormatImages: ids and names count from 0. *)
FormatImages_ZeroBased(urls) ==
  [i \in 1..Len(urls) |->
     [id |-> i - 1, name |-> <<"image_", i - 1, FileExt(urls[i])>>,
      url |-> urls[i], thumb |-> urls[i]]]

(* imageUrls.map((url, i) => ({ id, name, url, thumb })) *)
FormatImages(urls) ==
  [i \in 1..Len(urls) |->
     [id |-> i, name |-> <<"image_", i, FileExt(urls[i])>>,
      url |-> urls[i], thumb |-> urls[i]]]

Random == <<"random=1", "random=2", "random=3">>

Picsum(size, n) ==
  [host |-> "picsum.photos", file |-> size, ext |-> "", query |-> Random[n]]

(* simpleScrape / the inline demo list: three placeholder records. *)
DemoImages(v) ==
  [i \in 1..3 |->
     [id |-> i,
      name |-> <<IF v = SB THEN "sample_" ELSE "demo_", i, "jpg">>,
      url |-> Picsum("800/600", i), thumb |-> Picsum("400/300", i)]]

(***************************************************************************)
(* The cache: a file holds the JSON text of a list.                        *)
(***************************************************************************)
(* Mutant of Stringify: the first record is lost. *)
Stringify_DropsFirst(list) == [json |-> IF list = <<>> THEN list ELSE Tail(list)]

Stringify(list) == [json |-> list]

FileExists(files, f) == f \in DOMAIN files

(* Mutant of ReadJson: every read fails, as if the file were not there. *)
ReadJson_Fails(files, f) == [ok |-> FALSE, val |-> <<>>]

(* fs.readFile + JSON.parse; "throws" when the file does not exist or
   does not hold JSON text. *)
ReadJson(files, f) ==
  IF FileExists(files, f) /\ "json" \in DOMAIN files[f]
    THEN [ok |-> TRUE, val |-> files[f].json]
    ELSE [ok |-> FALSE, val |-> <<>>]

WriteFile(files, f, text) ==
  [g \in DOMAIN files \cup {f} |-> IF g = f THEN text ELSE files[g]]

Unlink(files, f) == [g \in DOMAIN files \ {f} |-> files[g]]

(* The content of a file, as a list of zero or one element. *)
Entry(files, f) == IF FileExists(files, f) THEN <<files[f]>> ELSE <<>>

(* What the handler's read of the cache file met: no file, the empty
   list, or a list of records. *)
ReadKind(rd) ==
  IF ~rd.ok THEN "absent" ELSE IF rd.val = <<>> THEN "empty" ELSE "list"

(* Mutants of CacheHit: ">= 0" serves the empty sentinel, "> 1" misses a
   one-element list. *)
CacheHit_AcceptsEmpty(images) == Len(images) >= 0

CacheHit_OffByOne(images) == Len(images) > 1

(* if (images.length > 0) : the cached list is served. *)
CacheHit(images) == Len(images) > 0

(***************************************************************************)
(* Responses.  "fields" is the set of top-level keys of the JSON body      *)
(* (debug.links_found is listed as links_found).                           *)
(***************************************************************************)
NoResp ==
  [status |-> 0, fields |-> {}, album |-> <<>>, total |-> 0, source |-> "",
   links_found |-> 0, images |-> <<>>, count |-> 0]

(* Mutant of CacheResp: the cached list is reported as scraped. *)
CacheResp_SiteSource(v, list) ==
  [NoResp EXCEPT !.status = 200,
     !.fields = {"model", "index", "album", "total", "source"},
     !.album = list, !.total = Len(list), !.source = "ahottie.net"]

(* The 200 body of the cache short-circuit. *)
CacheResp(v, list) ==
  [NoResp EXCEPT !.status = 200,
     !.fields = {"model", "index", "album", "total", "source"} \cup
                (IF v = P4B THEN {"cached"}
                 ELSE IF v = P1B THEN {"cache_file"}
                 ELSE IF v \in {SA, SB} THEN {} ELSE {"downloads_url"}),
     !.album = list, !.total = Len(list), !.source = "cache"]

(* images[0].url.includes('picsum.photos') ? demo : 'ahottie.net' *)
SourceOf(v, list) ==
  IF v \in {SB, P4B} /\ list[1].url.host = "picsum.photos"
    THEN (IF v = SB THEN "demo" ELSE "demo_fallback")
    ELSE "ahottie.net"

(* Mutant of FreshResp: total counts one record too many. *)
FreshResp_BadTotal(v, list) ==
  [NoResp EXCEPT !.status = 200,
     !.fields = {"model", "index", "album", "total", "source"},
     !.album = list, !.total = Len(list) + 1, !.source = SourceOf(v, list)]

(* The 200 body after a scrape. *)
FreshResp(v, list) ==
  [NoResp EXCEPT !.status = 200,
     !.fields = {"model", "index", "album", "total", "source"} \cup
                (CASE v \in {P0, P1A, P2} -> {"search_url", "gallery_url", "downloads_url"}
                   [] v = P1B -> {"search_url", "gallery_url", "cache_file"}
                   [] v \in {SA, SB} -> {"note"}
                   [] v = P4A -> {"downloads_url"}
                   [] v = P4B -> {"attempts", "status"}),
     !.album = list, !.total = Len(list), !.source = SourceOf(v, list)]

(* part_003: res.json({ model, index, count: images.length, images }) *)
UrlsResp(urls) ==
  [NoResp EXCEPT !.status = 200, !.fields = {"model", "index", "count", "images"},
     !.images = urls, !.count = Len(urls)]

(* Mutant of InvalidIndexResp: no variant reports the link count. *)
InvalidIndexResp_NoCount(v, links) ==
  [NoResp EXCEPT !.status = 400, !.fields = {"error"}]

(* The 400 body of the index check. *)
InvalidIndexResp(v, links) ==
  [NoResp EXCEPT !.status = 400,
     !.fields = IF v = P0 THEN {"error"}
                ELSE IF v \in {P1A, P1B} THEN {"error", "debug", "links_found"}
                ELSE {"error", "links_found"},
     !.links_found = IF v = P0 THEN 0 ELSE Len(links)]

(* The 404 body sent when no image was collected. *)
NotFoundResp(v) ==
  [NoResp EXCEPT !.status = 404,
     !.fields = CASE v \in {P0, SA, P4A} -> {"error", "suggestion"}
                  [] v \in {P1A, P3} -> {"error", "suggestion", "debug"}
                  [] v = P1B -> {"error"}
                  [] v = P2 -> {"error", "search_url"}
                  [] v = SB -> {"error", "note"}
                  [] v = P4B -> {"error"}]

(* The 500 body of the outer catch. *)
ErrorResp(v) ==
  [NoResp EXCEPT !.status = 500,
     !.fields = CASE v \in {P1A, SA} -> {"error", "debug"}
                  [] v = P1B -> {"error", "debug"}
                  [] v = P2 -> {"error", "timestamp"}
                  [] v = P4B -> {"error", "fallback", "try_again"}
                  [] OTHER -> {"error"}]

(***************************************************************************)
(* State of one activation of the album handler.  "before" and "threw"    *)
(* are history: the cache entry of the key when the request arrived, and   *)
(* whether an attempt of the request has thrown.                           *)
(***************************************************************************)
Idle ==
  [pc |-> "idle", id |-> 0, model |-> <<>>, index |-> <<>>, seen |-> "none",
   attempts |-> 0, open |-> 0, navOnly |-> TRUE,
   galleryLinks |-> <<>>, target |-> <<>>, imageUrls |-> <<>>, images |-> <<>>,
   found |-> FALSE, wrote |-> FALSE, before |-> <<>>, threw |-> FALSE,
   resp |-> NoResp]

InFlight(q) == q.pc \notin {"idle", "done"}

(* What the response of another route says: its status, the kind of body
   ("html", "json", "file"), which page an html body is, the image records
   it renders or lists, and the counters of a bulk download. *)
NoEpResp ==
  [status |-> 0, type |-> "", page |-> "", shown |-> <<>>,
   downloaded |-> 0, total |-> 0, failed |-> 0]

(* State of one activation of the handler of another route. *)
EpIdle ==
  [pc |-> "idle", id |-> 0, route |-> "", model |-> <<>>, index |-> <<>>,
   todo |-> <<>>, pos |-> 0, downloaded |-> 0, failed |-> <<>>, log |-> <<>>,
   urls |-> <<>>, sent |-> <<>>, launched |-> 0, open |-> 0, resp |-> NoEpResp]

(* The scroll loop before page.evaluate starts it.  "below" is
   document.body.scrollHeight - totalHeight, which is all the loop tests
   of the two; "grows" and "left" describe the page: how much it appends
   when it loads more, and how many times it still does (-1: without
   end); "fresh" tells that it has appended since the last tick. *)
ScrollIdle ==
  [pc |-> "idle", below |-> 0, scrollCount |-> 0,
   grows |-> 0, left |-> 0, fresh |-> FALSE]

(* The number of handler activations that have not responded yet. *)
Busy ==
  Cardinality({q \in Reqs : InFlight(rq[q])}) + (IF InFlight(ep) THEN 1 ELSE 0)

(* The process after start-up: empty cache and downloads directories, no
   request yet.  n is the number of requests the run lets overlap, envs
   the settings of RENDER it covers. *)
Boot(n, envs) ==
  /\ variant \in Variants
  /\ conc = n
  /\ render \in envs
  /\ cache = << >>
  /\ stored = << >>
  /\ downloads = << >>
  /\ served = 0
  /\ rq = [r \in Reqs |-> Idle]
  /\ ep = EpIdle
  /\ scroll = ScrollIdle

Init == Boot(1, {FALSE})

(* What the retry loop tests: the formatted list in the variants that
   format inside the loop, the raw URL list in the others. *)
Collected(v, q) == IF v \in {SB, P4B} THEN q.images ELSE q.imageUrls

(* Mutant of LoopCond: one attempt too many. *)
LoopCond_OffByOne(v, q) == q.attempts <= maxAttempts(v) /\ Len(Collected(v, q)) = 0

(* while (attempts < maxAttempts && imageUrls.length === 0) *)
LoopCond(v, q) == q.attempts < maxAttempts(v) /\ Len(Collected(v, q)) = 0

(* Mutant of Caught: the browser of the failed attempt stays open. *)
Caught_KeepsBrowser(v, q, nav) ==
  [q EXCEPT !.pc = "loop", !.navOnly = @ /\ nav, !.threw = TRUE,
     !.images = IF DemoFallback(v) /\ q.attempts = maxAttempts(v)
                  THEN DemoImages(v) ELSE @]

(* The catch block of an attempt: close the browser if one is open; the
   demo variants substitute the placeholder list after the last attempt.
   nav tells whether the failure was a navigation or launch failure. *)
Caught(v, q, nav) ==
  [q EXCEPT !.pc = "loop", !.open = 0, !.threw = TRUE,
     !.navOnly = @ /\ nav,
     !.images = IF DemoFallback(v) /\ q.attempts = maxAttempts(v)
                  THEN DemoImages(v) ELSE @]

(* Mutant of InvalidIndex: the upper bound is not tested. *)
InvalidIndex_NoUpper(n, links) == n.nan \/ n.v < 1

(* isNaN(idx) || idx < 1 || idx > galleryLinks.length *)
InvalidIndex(n, links) == n.nan \/ n.v < 1 \/ n.v > Len(links)

(* list[i] of JavaScript with a 0-based i, as a list of zero or one
   element: an index outside the array (or NaN) gives undefined. *)
At(list, n) ==
  IF ~n.nan /\ n.v >= 0 /\ n.v < Len(list) THEN <<list[n.v + 1]>> ELSE <<>>

(* The gallery link an attempt navigates to (empty: undefined). *)
Target(v, index, links) ==
  IF ValidatesIndex(v)
    THEN LET n == ParseInt(index)
         IN  At(links, IF n.nan THEN NaN ELSE Num(n.v - 1))
  ELSE IF ClampsIndex(v) THEN At(links, ClampIndex(Len(links), ParseInt(index)))
  ELSE LET t == At(links, Num(IndexOrOne(index) - 1))
       IN  IF t # <<>> THEN t ELSE At(links, Num(0))

(***************************************************************************)
(* The album handler, one action per stretch between two awaits.           *)
(***************************************************************************)

(* A request arrives: parameters are bound and the cache file is read. *)
Start(r, m, i) ==
  /\ served < MaxRequests
  /\ ~InFlight(rq[r])
  /\ Busy < conc
  /\ \A q \in Reqs : q < r => InFlight(rq[q])
  /\ served' = served + 1
  /\ LET f == CacheFile(variant, m, i)
         rd == ReadJson(cache, f)
         q == [Idle EXCEPT !.id = served + 1, !.model = m, !.index = i,
                           !.before = Entry(cache, f)]
     IN  rq' = [rq EXCEPT ![r] =
           IF UsesCache(variant) /\ rd.ok /\ CacheHit(rd.val)
             THEN [q EXCEPT !.pc = "done", !.seen = ReadKind(rd),
                            !.resp = CacheResp(variant, rd.val)]
           ELSE IF UsesCache(variant) /\ rd.ok
             THEN [q EXCEPT !.seen = ReadKind(rd),
                            !.pc = IF UnlinksEmpty(variant) THEN "unlink" ELSE "loop"]
           ELSE [q EXCEPT !.pc = "loop",
                          !.seen = IF UsesCache(variant) THEN ReadKind(rd) ELSE "none"]]
  /\ UNCHANGED <<variant, scroll, conc, render, cache, stored, downloads, ep>>

(* await fs.unlink(cacheFile).catch(() => {}) *)
UnlinkEmpty(r) ==
  /\ rq[r].pc = "unlink"
  /\ cache' = Unlink(cache, CacheFile(variant, rq[r].model, rq[r].index))
  /\ stored' = Unlink(stored, CacheFile(variant, rq[r].model, rq[r].index))
  /\ rq' = [rq EXCEPT ![r].pc = "loop"]
  /\ UNCHANGED <<variant, scroll, conc, render, downloads, served, ep>>

(* Top of the retry loop: attempts++ and the browser launch. *)
Launch(r) ==
  /\ rq[r].pc = "loop"
  /\ LoopCond(variant, rq[r])
  /\ LET q == [rq[r] EXCEPT !.attempts = @ + 1, !.target = <<>>]
     IN  \/ rq' = [rq EXCEPT ![r] =
                [q EXCEPT !.pc = "search", !.open = @ + 1]]
         \/ rq' = [rq EXCEPT ![r] = Caught(variant, q, TRUE)]
  /\ UNCHANGED <<variant, scroll, conc, render, cache, stored, downloads, served, ep>>

(* Navigation to the search page, link discovery and the index check. *)
Search(r) ==
  /\ rq[r].pc = "search"
  /\ \/ rq' = [rq EXCEPT ![r] = Caught(variant, rq[r], TRUE)]
     \/ \E page \in SearchPages :
          LET links == GalleryLinks(variant, page)
              q == [rq[r] EXCEPT !.galleryLinks = links, !.found = TRUE]
          IN  rq' = [rq EXCEPT ![r] =
                IF ValidatesIndex(variant) /\ InvalidIndex(ParseInt(q.index), links)
                  THEN [q EXCEPT !.pc = "done", !.navOnly = FALSE,
                          !.open = IF ClosesOn400(variant) THEN 0 ELSE @,
                          !.resp = InvalidIndexResp(variant, links)]
                ELSE IF ThrowsOnNoLinks(variant) /\ Len(links) = 0
                  THEN Caught(variant, q, FALSE)
                ELSE [q EXCEPT !.pc = "gallery",
                        !.target = Target(variant, q.index, links)]]
  /\ UNCHANGED <<variant, scroll, conc, render, cache, stored, downloads, served, ep>>

(* End of a successful attempt: the list is stored and the browser closed. *)
Collect(v, q, urls) ==
  [q EXCEPT !.pc = "loop", !.open = 0, !.imageUrls = urls, !.navOnly = FALSE,
     !.images = IF v \in {SB, P4B} THEN FormatImages(urls) ELSE @]

(* Navigation to the selected gallery and the image extraction. *)
Gallery(r) ==
  /\ rq[r].pc = "gallery"
  /\ IF rq[r].target = <<>>
       THEN rq' = [rq EXCEPT ![r] = Caught(variant, rq[r], FALSE)]
       ELSE \/ rq' = [rq EXCEPT ![r] = Caught(variant, rq[r], TRUE)]
            \/ \E page \in GalleryPages :
                 LET urls == ImageUrls(variant, page)
                 IN  rq' = [rq EXCEPT ![r] =
                       IF SearchFallback(variant) /\ urls = <<>>
                         THEN [rq[r] EXCEPT !.pc = "fallback"]
                         ELSE Collect(variant, rq[r], urls)]
  /\ UNCHANGED <<variant, scroll, conc, render, cache, stored, downloads, served, ep>>

(* part_001: the gallery gave nothing, the search page is scanned instead. *)
Fallback(r) ==
  /\ rq[r].pc = "fallback"
  /\ \/ rq' = [rq EXCEPT ![r] = Caught(variant, rq[r], TRUE)]
     \/ \E page \in GalleryPages :
          rq' = [rq EXCEPT ![r] = Collect(variant, rq[r], ImageUrls(variant, page))]
  /\ UNCHANGED <<variant, scroll, conc, render, cache, stored, downloads, served, ep>>

(* After the loop: the cache write and the response. *)
Finish(r) ==
  /\ rq[r].pc = "loop"
  /\ ~LoopCond(variant, rq[r])
  /\ LET q == rq[r]
         f == CacheFile(variant, q.model, q.index)
         list == IF variant \in {SB, P4B} THEN q.images ELSE FormatImages(q.imageUrls)
     IN  IF variant = P3
           THEN /\ rq' = [rq EXCEPT ![r] =
                     [q EXCEPT !.pc = "done",
                        !.resp = IF Len(q.imageUrls) = 0 THEN NotFoundResp(variant)
                                 ELSE UrlsResp(q.imageUrls)]]
                /\ UNCHANGED <<cache, stored>>
         ELSE IF Len(list) = 0
           THEN /\ cache' = IF WritesEmpty(variant)
                              THEN WriteFile(cache, f, Stringify(<<>>)) ELSE cache
                /\ stored' = IF WritesEmpty(variant)
                               THEN WriteFile(stored, f, CacheKey(variant, q.model, q.index))
                               ELSE stored
                /\ rq' = [rq EXCEPT ![r] =
                     [q EXCEPT !.pc = "done", !.wrote = WritesEmpty(variant),
                        !.resp = IF variant = P4B THEN ErrorResp(variant)
                                 ELSE NotFoundResp(variant)]]
         ELSE /\ cache' = WriteFile(cache, f, Stringify(list))
              /\ stored' = WriteFile(stored, f, CacheKey(variant, q.model, q.index))
              /\ rq' = [rq EXCEPT ![r] =
                   [q EXCEPT !.pc = "done", !.wrote = TRUE, !.images = list,
                      !.resp = FreshResp(variant, list)]]
  /\ UNCHANGED <<variant, scroll, conc, render, downloads, served, ep>>

(***************************************************************************)
(* The other routes.  /api/nsfw renders a cached list (part_003: sends a   *)
(* cached image file, scraping one when the model has none);               *)
(* /api/bulk-download fetches the cached images to the downloads directory *)
(* (part_000, first part_004 variant) or lists their URLs; /api/cache      *)
(* lists the cache directory.                                              *)
(***************************************************************************)

(* The routes a variant registers. *)
HasNsfw(v) == v # P1A

HasBulk(v) == v \in {P0, P4A, SA, SB, P4B}

FetchesToDisk(v) == v \in {P0, P4A}

HasCacheList(v) == v = SA

Unsafe == {"<", ">", ":", "\"", "/", "\\", "|", "?", "*"}

RECURSIVE DropUnsafe(_)
DropUnsafe(s) ==
  IF s # <<>> /\ Head(s) \in Unsafe THEN DropUnsafe(Tail(s)) ELSE s

(* str.replace(/[<>:"/\\|?*]+/g, '_') *)
RECURSIVE Sanitize(_)
Sanitize(s) ==
  IF s = <<>> THEN <<>>
  ELSE IF Head(s) \in Unsafe
    THEN <<"_">> \o Sanitize(DropUnsafe(Tail(s)))
    ELSE <<Head(s)>> \o Sanitize(Tail(s))

(* fs.readdir(path.join(CACHE_DIR, dir)) *)
Folder(files, dir) == {f \in DOMAIN files : Len(f) = 3 /\ f[2] = dir}

(* part_003: cache/<model>/nsfw_<model>_<index>.jpg *)
NsfwFile(model, index) ==
  <<"cache", Sanitize(model),
    <<"nsfw_">> \o Sanitize(model) \o <<"_", IndexOrOne(index), ".jpg">>>>

(* A request of another route is accepted. *)
Accept == served < MaxRequests /\ Busy < conc /\ ~InFlight(ep)

EpStart(route, m, i) ==
  [EpIdle EXCEPT !.pc = "run", !.id = served + 1, !.route = route,
     !.model = m, !.index = i]

(* process.env.RENDER ? images.slice(0, 15) : images  (first part_004) *)
NsfwShown(v, env, images) == IF v = P4A /\ env THEN Slice(images, 15) ELSE images

(* Mutant of NsfwResp: a missing cache file is answered with the
   "no cached images" page and status 200 in every variant. *)
NsfwResp_NoStatus(v, env, rd) ==
  IF ~rd.ok
    THEN [NoEpResp EXCEPT !.status = 200, !.type = "html", !.page = "nocache"]
    ELSE [NoEpResp EXCEPT !.status = 200, !.type = "html", !.page = "gallery",
            !.shown = rd.val, !.total = Len(rd.val)]

(* The response of /api/nsfw to what the read of the cache file gave. *)
NsfwResp(v, env, rd) ==
  IF ~rd.ok
    THEN IF v \in {SA, SB, P4B}
           THEN [NoEpResp EXCEPT !.status = 200, !.type = "html", !.page = "nocache"]
           ELSE [NoEpResp EXCEPT !.status = 404, !.type = "html", !.page = "error"]
  ELSE IF rd.val = <<>> /\ v \in {P1B, P2, P4A}
    THEN [NoEpResp EXCEPT !.status = 404, !.type = "html", !.page = "error"]
  ELSE [NoEpResp EXCEPT !.status = 200, !.type = "html", !.page = "gallery",
          !.shown = NsfwShown(v, env, rd.val), !.total = Len(rd.val)]

(* GET /api/nsfw/:model/:index of the variants with a JSON cache. *)
Nsfw(m, i) ==
  /\ HasNsfw(variant) /\ variant # P3
  /\ Accept
  /\ served' = served + 1
  /\ ep' = [EpStart("nsfw", m, i) EXCEPT !.pc = "done",
              !.resp = NsfwResp(variant, render,
                                ReadJson(cache, CacheFile(variant, m, i)))]
  /\ UNCHANGED <<variant, scroll, conc, render, cache, stored, downloads, rq>>

(* part_003, GET /api/nsfw: a file of the model's folder is sent if there
   is one; otherwise the handler scrapes. *)
NsfwLookup(m, i) ==
  /\ variant = P3
  /\ Accept
  /\ served' = served + 1
  /\ LET files == Folder(cache, Sanitize(m))
         q == EpStart("nsfw", m, i)
     IN  IF files # {}
           THEN \E f \in files :
                  ep' = [q EXCEPT !.pc = "done", !.sent = f,
                           !.resp = [NoEpResp EXCEPT !.status = 200, !.type = "file"]]
           ELSE ep' = [q EXCEPT !.pc = "launch"]
  /\ UNCHANGED <<variant, scroll, conc, render, cache, stored, downloads, rq>>

(* The 404 of part_003's /api/nsfw when scrapeImages returned no image. *)
NsfwNone ==
  [NoEpResp EXCEPT !.status = 404, !.type = "json"]

(* part_003, scrapeImages called by /api/nsfw: the browser launch. *)
NsfwLaunch ==
  /\ ep.pc = "launch"
  /\ \/ ep' = [ep EXCEPT !.pc = "pages", !.launched = @ + 1, !.open = @ + 1]
     \/ ep' = [ep EXCEPT !.pc = "done", !.resp = NsfwNone]
  /\ UNCHANGED <<variant, scroll, conc, render, cache, stored, downloads, served, rq>>

(* part_003, scrapeImages called by /api/nsfw: the two navigations; the
   browser is closed in the finally block. *)
NsfwPages ==
  /\ ep.pc = "pages"
  /\ \/ ep' = [ep EXCEPT !.pc = "done", !.open = 0, !.resp = NsfwNone]
     \/ \E spage \in SearchPages, gpage \in GalleryPages :
          LET links == GalleryLinks(variant, spage)
              urls == IF Target(variant, ep.index, links) = <<>> THEN <<>>
                      ELSE ImageUrls(variant, gpage)
          IN  ep' = IF urls = <<>>
                      THEN [ep EXCEPT !.pc = "done", !.open = 0, !.resp = NsfwNone]
                      ELSE [ep EXCEPT !.pc = "fetch", !.open = 0, !.urls = urls]
  /\ UNCHANGED <<variant, scroll, conc, render, cache, stored, downloads, served, rq>>

(* part_003, downloadImage(images[0], ...) and the response. *)
NsfwFetch ==
  /\ ep.pc = "fetch" /\ ep.route = "nsfw"
  /\ LET f == NsfwFile(ep.model, ep.index)
     IN  \/ /\ cache' = WriteFile(cache, f, [img |-> ep.urls[1]])
            /\ stored' = WriteFile(stored, f, CacheKey(variant, ep.model, ep.index))
            /\ ep' = [ep EXCEPT !.pc = "done", !.sent = f,
                        !.resp = [NoEpResp EXCEPT !.status = 200, !.type = "file"]]
         \/ /\ ep' = [ep EXCEPT !.pc = "done",
                        !.resp = [NoEpResp EXCEPT !.status = 500, !.type = "json"]]
            /\ UNCHANGED <<cache, stored>>
  /\ UNCHANGED <<variant, scroll, conc, render, downloads, served, rq>>

(* Mutant of BulkTodo: the download limit is not applied. *)
BulkTodo_All(v, env, images) == images

(* process.env.RENDER ? images.slice(0, 10) : images  (first part_004) *)
BulkTodo(v, env, images) == IF v = P4A /\ env THEN Slice(images, 10) ELSE images

(* GET /api/bulk-download/:model/:index up to the loop. *)
BulkStart(m, i) ==
  /\ HasBulk(variant)
  /\ Accept
  /\ served' = served + 1
  /\ LET rd == ReadJson(cache, CacheFile(variant, m, i))
         q == EpStart("bulk", m, i)
     IN  ep' =
           IF ~rd.ok
             THEN [q EXCEPT !.pc = "done",
                     !.resp = [NoEpResp EXCEPT !.type = "json",
                                 !.status = IF variant = P0 THEN 500 ELSE 404]]
           ELSE IF variant = P4A /\ rd.val = <<>>
             THEN [q EXCEPT !.pc = "done",
                     !.resp = [NoEpResp EXCEPT !.type = "json", !.status = 404]]
           ELSE IF FetchesToDisk(variant)
             THEN [q EXCEPT !.pc = "fetch", !.pos = 1,
                     !.todo = BulkTodo(variant, render, rd.val)]
           ELSE [q EXCEPT !.pc = "done",
                   !.resp = [NoEpResp EXCEPT !.type = "json", !.status = 200,
                               !.shown = rd.val, !.total = Len(rd.val)]]
  /\ UNCHANGED <<variant, scroll, conc, render, cache, stored, downloads, rq>>

(* The number of fetches of a run that did not deliver the image. *)
Faults(log) == Cardinality({k \in 1..Len(log) : log[k] \in {"status", "throws"}})

(* What a fetch can do: answer 2xx ("ok"), answer another status
   ("status"), or reject ("throws"). *)
FetchOutcomes(log) ==
  IF Faults(log) < MaxFaults THEN {"ok", "status", "throws"} ELSE {"ok"}

(* Whether the loop body writes the file and counts the image: part_004
   tests response.ok, part_000 saves whatever body the server answered. *)
Saves(v, o) == o = "ok" \/ (v = P0 /\ o = "status")

(* One iteration of the download loop. *)
BulkImage ==
  /\ ep.pc = "fetch" /\ ep.route = "bulk"
  /\ ep.pos <= Len(ep.todo)
  /\ LET img == ep.todo[ep.pos]
         path == <<"downloads", ep.model, img.name>>
     IN  IF FileExists(downloads, path)
           THEN /\ ep' = [ep EXCEPT !.pos = @ + 1, !.downloaded = @ + 1,
                            !.log = Append(@, "had")]
                /\ downloads' = downloads
           ELSE \E o \in FetchOutcomes(ep.log) :
                  /\ downloads' =
                       IF Saves(variant, o)
                         THEN WriteFile(downloads, path, [from |-> img.url, ok |-> o = "ok"])
                         ELSE downloads
                  /\ ep' = [ep EXCEPT !.pos = @ + 1, !.log = Append(@, o),
                              !.downloaded = IF Saves(variant, o) THEN @ + 1 ELSE @,
                              !.failed = IF Saves(variant, o) THEN @ ELSE Append(@, img.name)]
  /\ UNCHANGED <<variant, scroll, conc, render, cache, stored, served, rq>>

(* After the loop: the counters are sent. *)
BulkFinish ==
  /\ ep.pc = "fetch" /\ ep.route = "bulk"
  /\ ep.pos > Len(ep.todo)
  /\ ep' = [ep EXCEPT !.pc = "done",
              !.resp = [NoEpResp EXCEPT !.type = "json", !.status = 200,
                          !.downloaded = ep.downloaded, !.total = Len(ep.todo),
                          !.failed = Len(ep.failed)]]
  /\ UNCHANGED <<variant, scroll, conc, render, cache, stored, downloads, served, rq>>

(* GET /api/cache (first server.js variant): the .json files are listed. *)
CacheList ==
  /\ HasCacheList(variant)
  /\ Accept
  /\ served' = served + 1
  /\ ep' = [EpStart("cache", <<>>, <<>>) EXCEPT !.pc = "done",
              !.resp = [NoEpResp EXCEPT !.type = "json", !.status = 200,
                          !.total = Cardinality(DOMAIN cache)]]
  /\ UNCHANGED <<variant, scroll, conc, render, cache, stored, downloads, rq>>

(* The list the handler has after the loop. *)
Album(v, q) == IF v \in {SB, P4B} THEN q.images ELSE FormatImages(q.imageUrls)

(* Whether the handler calls fs.writeFile after the loop. *)
WillWrite(v, q) ==
  UsesCache(v) /\ (Len(Album(v, q)) > 0 \/ WritesEmpty(v))

(* A file that has been opened for writing and not written yet: no text. *)
Truncated == [bytes |-> 0]

(* What a file holds after text is written from offset 0 over old, the
   content it had since it was last truncated: a longer earlier text keeps
   its tail behind the new one, which is not JSON any more.  The text of a
   list with more records is the longer one. *)
Overlay(old, text) ==
  IF "json" \in DOMAIN old /\ Len(old.json) > Len(text.json)
    THEN [torn |-> <<text.json, old.json>>]
    ELSE text

(* After the loop, when requests overlap: fs.writeFile is not one step.
   It first opens the cache file, which creates or truncates it. *)
OpenCache(r) ==
  /\ rq[r].pc = "loop"
  /\ ~LoopCond(variant, rq[r])
  /\ WillWrite(variant, rq[r])
  /\ cache' = WriteFile(cache, CacheFile(variant, rq[r].model, rq[r].index), Truncated)
  /\ rq' = [rq EXCEPT ![r].pc = "write"]
  /\ UNCHANGED <<variant, scroll, conc, render, stored, downloads, served, ep>>

(* Then it writes the text from offset 0 into the file it opened (if the
   name has been unlinked meanwhile, nothing is left under the name), and
   the handler responds. *)
WriteCache(r) ==
  /\ rq[r].pc = "write"
  /\ LET q == rq[r]
         f == CacheFile(variant, q.model, q.index)
         list == Album(variant, q)
     IN  /\ cache' = IF FileExists(cache, f)
                        THEN WriteFile(cache, f, Overlay(cache[f], Stringify(list)))
                        ELSE cache
         /\ stored' = IF FileExists(cache, f)
                         THEN WriteFile(stored, f, CacheKey(variant, q.model, q.index))
                         ELSE stored
         /\ rq' = [rq EXCEPT ![r] =
               IF Len(list) = 0
                 THEN [q EXCEPT !.pc = "done", !.wrote = TRUE,
                         !.resp = NotFoundResp(variant)]
                 ELSE [q EXCEPT !.pc = "done", !.wrote = TRUE, !.images = list,
                         !.resp = FreshResp(variant, list)]]
  /\ UNCHANGED <<variant, scroll, conc, render, downloads, served, ep>>

(* After the loop, when the handler writes nothing: the response. *)
Answer(r) == ~WillWrite(variant, rq[r]) /\ Finish(r)

Next ==
  \/ \E r \in Reqs, m \in Models, i \in Indices : Start(r, m, i)
  \/ \E r \in Reqs : UnlinkEmpty(r)
  \/ \E r \in Reqs : Launch(r)
  \/ \E r \in Reqs : Search(r)
  \/ \E r \in Reqs : Gallery(r)
  \/ \E r \in Reqs : Fallback(r)
  \/ \E r \in Reqs : Finish(r)

Spec == Init /\ [][Next]_vars

(* Two overlapping album requests.  The cache write is taken in its two
   steps here, between which the other request can run. *)
InitConc == Boot(2, {FALSE})

ConcIndices == {<<"1">>}

NextConc ==
  \/ \E r \in Reqs, m \in Models, i \in ConcIndices : Start(r, m, i)
  \/ \E r \in Reqs : UnlinkEmpty(r)
  \/ \E r \in Reqs : Launch(r)
  \/ \E r \in Reqs : Search(r)
  \/ \E r \in Reqs : Gallery(r)
  \/ \E r \in Reqs : Fallback(r)
  \/ \E r \in Reqs : OpenCache(r)
  \/ \E r \in Reqs : WriteCache(r)
  \/ \E r \in Reqs : Answer(r)

SpecConc == InitConc /\ [][NextConc]_vars

(* The whole service, one request after the other, with or without RENDER.
   The parameters include two pairs that the flat file name of the
   server.js variants does not tell apart: ("a_1", "2") and ("a", "1_2"). *)
SiteKeys ==
  {<<<<"a">>, <<"2">>>>, <<<<"a">>, <<"1", "_", "2">>>>, <<<<"a", "_", "1">>, <<"2">>>>}

InitSite == Boot(1, BOOLEAN)

NextSite ==
  \/ \E r \in Reqs, k \in SiteKeys : Start(r, k[1], k[2])
  \/ \E r \in Reqs : UnlinkEmpty(r)
  \/ \E r \in Reqs : Launch(r)
  \/ \E r \in Reqs : Search(r)
  \/ \E r \in Reqs : Gallery(r)
  \/ \E r \in Reqs : Fallback(r)
  \/ \E r \in Reqs : Finish(r)
  \/ \E k \in SiteKeys : Nsfw(k[1], k[2])
  \/ \E k \in SiteKeys : NsfwLookup(k[1], k[2])
  \/ NsfwLaunch
  \/ NsfwPages
  \/ NsfwFetch
  \/ \E k \in SiteKeys : BulkStart(k[1], k[2])
  \/ BulkImage
  \/ BulkFinish
  \/ CacheList

SpecSite == InitSite /\ [][NextSite]_vars

(* Bulk downloads alone.  The process starts over a cache directory that
   earlier runs have filled: two galleries of one model, each with a list
   that the album handler of the variant writes. *)
BulkIndices == {<<"1">>, <<"2">>}

CachedLists(v) ==
  {l \in {FormatImages(ImageUrls(v, page)) :
            page \in SeqsUpTo(Srcs, MaxImgs) \cup {Slice(LongPage, MaxImgs)}} :
     l # <<>> \/ WritesEmpty(v)}

InitBulk ==
  /\ variant \in {v \in Variants : HasBulk(v)}
  /\ conc = 1
  /\ render \in BOOLEAN
  /\ \E m \in Models, l1 \in CachedLists(variant), l2 \in CachedLists(variant) :
       LET f1 == CacheFile(variant, m, <<"1">>)
           f2 == CacheFile(variant, m, <<"2">>)
       IN  /\ cache = [f \in {f1, f2} |-> Stringify(IF f = f1 THEN l1 ELSE l2)]
           /\ stored = [f \in {f1, f2} |->
                          CacheKey(variant, m, IF f = f1 THEN <<"1">> ELSE <<"2">>)]
  /\ downloads = << >>
  /\ served = 0
  /\ rq = [r \in Reqs |-> Idle]
  /\ ep = EpIdle
  /\ scroll = ScrollIdle

NextBulk ==
  \/ \E m \in Models, i \in BulkIndices : BulkStart(m, i)
  \/ BulkImage
  \/ BulkFinish

SpecBulk == InitBulk /\ [][NextBulk]_vars

(***************************************************************************)
(* The scroll-to-bottom loop that an attempt runs in the page before it    *)
(* collects links or images: a setInterval callback that scrolls by        *)
(* "distance" and resolves the promise when its test holds.  The page      *)
(* loads more content after it has been scrolled, between two callbacks.   *)
(***************************************************************************)

(* The variants whose attempt runs the loop. *)
HasScroll(v) == v \in {P0, P1A, P1B, P2, SA, P4A, P4B}

(* The variants whose loop counts its steps. *)
HasCounter(v) == v \in {P1A, P1B, P2, P4A}

distance(v) == IF v = SA THEN 100 ELSE 200

maxScrolls(v) == IF v = P4A THEN 20 ELSE 60

(* The test at the end of the callback. *)
ScrollStop(v, below, count) ==
  CASE v = P4A -> count >= maxScrolls(v)
    [] v \in {P1A, P1B, P2} -> below <= 0 \/ count >= maxScrolls(v)
    [] OTHER -> below <= 0

(* The pages: a height, and content appended when more is loaded, a
   bounded number of times or, one scroll distance at a time, without
   end. *)
ScrollPages(v) ==
  {[height |-> 200 * h, grows |-> 200 * g, left |-> n] :
     h \in 1..MaxScreens, g \in 0..MaxGrow, n \in 0..MaxGrow}
  \cup {[height |-> 200 * h, grows |-> distance(v), left |-> 0 - 1] :
     h \in 1..MaxScreens}

(* page.evaluate starts the loop. *)
ScrollBegin ==
  /\ HasScroll(variant)
  /\ scroll.pc = "idle"
  /\ \E p \in ScrollPages(variant) :
       scroll' = [ScrollIdle EXCEPT !.pc = "run", !.below = p.height,
                    !.grows = p.grows, !.left = p.left]
  /\ UNCHANGED <<variant, conc, render, cache, stored, downloads, served, rq, ep>>

(* The page appends content after it was scrolled. *)
ScrollGrow ==
  /\ scroll.pc = "run"
  /\ ~scroll.fresh
  /\ scroll.left # 0
  /\ scroll.grows > 0
  /\ scroll' = [scroll EXCEPT !.below = @ + scroll.grows, !.fresh = TRUE,
                  !.left = IF @ < 0 THEN @ ELSE @ - 1]
  /\ UNCHANGED <<variant, conc, render, cache, stored, downloads, served, rq, ep>>

(* One callback of the timer. *)
ScrollTick ==
  /\ scroll.pc = "run"
  /\ LET below == scroll.below - distance(variant)
         count == IF HasCounter(variant) THEN scroll.scrollCount + 1 ELSE 0
     IN  scroll' = [scroll EXCEPT !.below = below, !.scrollCount = count,
                      !.fresh = FALSE,
                      !.pc = IF ScrollStop(variant, below, count) THEN "done" ELSE "run"]
  /\ UNCHANGED <<variant, conc, render, cache, stored, downloads, served, rq, ep>>

InitScroll == Boot(1, {FALSE})

NextScroll == ScrollBegin \/ ScrollGrow \/ ScrollTick

(* The timer keeps firing until it is cleared. *)
SpecScroll == InitScroll /\ [][NextScroll]_vars /\ WF_vars(ScrollTick)

(***************************************************************************)
(* Filesystem errors.  fs.mkdir and fs.writeFile can reject; in the album  *)
(* handler both are outside the try block of an attempt, so the rejection  *)
(* reaches the outer catch block.                                          *)
(***************************************************************************)

(* The variants whose album handler creates the model's cache directory
   before it reads the cache. *)
MkdirsCache(v) == v \in {P0, P1A, P1B, P2, P4A}

(* The body the outer catch block of the second server.js variant sends:
   status 200 and the placeholder list. *)
RescueResp(v) ==
  [NoResp EXCEPT !.status = 200,
     !.fields = {"model", "index", "album", "total", "source", "note", "error"},
     !.album = DemoImages(v), !.total = Len(DemoImages(v)), !.source = "demo"]

(* The outer catch block: the browser is closed if one is open, and the
   error is answered. *)
Thrown(v, q) ==
  [q EXCEPT !.pc = "done", !.open = 0,
     !.resp = IF v = SB THEN RescueResp(v) ELSE ErrorResp(v)]

(* Mutant of FailedWrite: the rejected write has stored the text. *)
FailedWrite_Stores(files, f, text) == {WriteFile(files, f, text)}

(* What a rejected fs.writeFile can leave: the files as they were (the
   open failed), or the file created or truncated with none or a part of
   the text in it, which is not JSON. *)
FailedWrite(files, f, text) == {files, WriteFile(files, f, Truncated)}

(* A request arrives and fs.mkdir(cacheDir) rejects. *)
MkdirFails(r, m, i) ==
  /\ MkdirsCache(variant)
  /\ served < MaxRequests
  /\ ~InFlight(rq[r])
  /\ Busy < conc
  /\ \A q \in Reqs : q < r => InFlight(rq[q])
  /\ served' = served + 1
  /\ rq' = [rq EXCEPT ![r] =
       Thrown(variant, [Idle EXCEPT !.id = served + 1, !.model = m, !.index = i,
                          !.before = Entry(cache, CacheFile(variant, m, i))])]
  /\ UNCHANGED <<variant, scroll, conc, render, cache, stored, downloads, ep>>

(* After the loop, fs.writeFile(cacheFile, ...) rejects. *)
WriteFails(r) ==
  /\ rq[r].pc = "loop"
  /\ ~LoopCond(variant, rq[r])
  /\ WillWrite(variant, rq[r])
  /\ LET f == CacheFile(variant, rq[r].model, rq[r].index)
     IN  cache' \in FailedWrite(cache, f, Stringify(Album(variant, rq[r])))
  /\ rq' = [rq EXCEPT ![r] = Thrown(variant, rq[r])]
  /\ UNCHANGED <<variant, scroll, conc, render, stored, downloads, served, ep>>

(* part_003, GET /api/nsfw: fs.mkdir or fs.readdir rejects.  The handler
   has no try block: its promise rejects and it has sent nothing. *)
NsfwDirFails(m, i) ==
  /\ variant = P3
  /\ Accept
  /\ served' = served + 1
  /\ ep' = [EpStart("nsfw", m, i) EXCEPT !.pc = "rejected"]
  /\ UNCHANGED <<variant, scroll, conc, render, cache, stored, downloads, rq>>

(* GET /api/bulk-download: fs.mkdir(downloadDir) rejects, inside the try
   block of the handler. *)
BulkDirFails(m, i) ==
  /\ FetchesToDisk(variant)
  /\ Accept
  /\ served' = served + 1
  /\ ep' = [EpStart("bulk", m, i) EXCEPT !.pc = "done",
              !.resp = [NoEpResp EXCEPT !.type = "json", !.status = 500]]
  /\ UNCHANGED <<variant, scroll, conc, render, cache, stored, downloads, rq>>

(* The variants that register GET /downloads/:model. *)
HasDownloads(v) == v \in {P0, P4A}

(* The extensions the listing keeps. *)
ListedExts(v) ==
  IF v = P0 THEN {"jpg", "jpeg", "png", "gif", "webp", "bmp"}
  ELSE {"jpg", "jpeg", "png", "gif", "webp"}

(* GET /downloads/:model: the image files of the model's directory are
   listed.  The model keeps files, not directories: a directory without
   files may exist or not.  A missing directory is answered 404; a
   readdir that rejects otherwise is answered 404 by part_000 and 500 by
   part_004. *)
Downloads(m) ==
  /\ HasDownloads(variant)
  /\ Accept
  /\ served' = served + 1
  /\ LET files == {f \in DOMAIN downloads : f[2] = m}
         listed == {f \in files : f[3][3] \in ListedExts(variant)}
         q == [EpStart("downloads", m, <<>>) EXCEPT !.pc = "done"]
     IN  \/ ep' = [q EXCEPT !.resp = [NoEpResp EXCEPT !.type = "json",
                      !.status = 200, !.total = Cardinality(listed)]]
         \/ /\ files = {}
            /\ ep' = [q EXCEPT !.resp = [NoEpResp EXCEPT !.type = "json",
                         !.status = 404]]
         \/ ep' = [q EXCEPT !.resp = [NoEpResp EXCEPT !.type = "json",
                      !.status = IF variant = P0 THEN 404 ELSE 500]]
  /\ UNCHANGED <<variant, scroll, conc, render, cache, stored, downloads, rq>>

(* The whole service, one request after the other, with filesystem
   errors. *)
InitFault == Boot(1, {FALSE})

NextFault ==
  \/ \E r \in Reqs, m \in Models, i \in Indices : Start(r, m, i)
  \/ \E r \in Reqs, m \in Models, i \in Indices : MkdirFails(r, m, i)
  \/ \E r \in Reqs : UnlinkEmpty(r)
  \/ \E r \in Reqs : Launch(r)
  \/ \E r \in Reqs : Search(r)
  \/ \E r \in Reqs : Gallery(r)
  \/ \E r \in Reqs : Fallback(r)
  \/ \E r \in Reqs : Finish(r)
  \/ \E r \in Reqs : WriteFails(r)
  \/ \E m \in Models, i \in Indices : Nsfw(m, i)
  \/ \E m \in Models, i \in Indices : NsfwLookup(m, i)
  \/ \E m \in Models, i \in Indices : NsfwDirFails(m, i)
  \/ NsfwLaunch
  \/ NsfwPages
  \/ NsfwFetch
  \/ \E m \in Models, i \in Indices : BulkStart(m, i)
  \/ \E m \in Models, i \in Indices : BulkDirFails(m, i)
  \/ BulkImage
  \/ BulkFinish
  \/ \E m \in Models : Downloads(m)

SpecFault == InitFault /\ [][NextFault]_vars

(***************************************************************************)
(* Properties.                                                             *)
(***************************************************************************)
Req(r) == rq[r]

KeyFile(q) == CacheFile(variant, q.model, q.index)

Scraping(q) == q.pc \in {"search", "gallery", "fallback"}

Responded(q) == q.resp.status # 0

(* The index is NaN, below 1 or above the number of discovered links. *)
OutOfRange(q) ==
  LET n == ParseInt(q.index)
  IN  n.nan \/ n.v < 1 \/ n.v > Len(q.galleryLinks)

(* The request ran its attempts and none of them produced an image. *)
NoImage(q) ==
  /\ q.pc = "done" /\ q.attempts >= 1
  /\ q.resp.status # 400 /\ q.imageUrls = <<>>

Validating == {P0, P1A, P1B, P2, P4A}

Clamping == {SA, SB, P4B}

(* C1 as stated: a request that finds the cached empty sentinel is answered
   from it: it makes no scrape attempt and launches no browser. *)
C1_Original ==
  \A r \in Reqs :
    Req(r).seen = "empty" => Req(r).attempts = 0 /\ ~Scraping(Req(r))

(* C1 amended: the empty sentinel is never served. A request that reads an
   empty cached list is answered only after at least one new scrape attempt,
   and never with a cache response. *)
C1_Amended ==
  \A r \in Reqs :
    Req(r).seen = "empty" =>
      /\ Req(r).resp.source # "cache"
      /\ Req(r).pc = "done" => Req(r).attempts >= 1

(* A request that read the empty sentinel has launched a browser again. *)
C1_Witness ==
  \E r \in Reqs : Req(r).seen = "empty" /\ Req(r).pc = "search" /\ Req(r).open = 1

(* C2 as stated: whenever an attempt has discovered the link list and the
   index is NaN, below 1 or above the number of links, the request is
   answered 400 and no gallery page is visited. *)
C2_Original ==
  \A r \in Reqs :
    Req(r).found /\ OutOfRange(Req(r)) =>
      Req(r).pc = "done" /\ Req(r).resp.status = 400 /\ Req(r).target = <<>>

(* C2 amended: in the variants that validate the index, an attempt that
   discovers the link list with an index that is NaN, below 1 or above the
   number of links ends the request with 400 without visiting a gallery.
   The other variants never answer 400; the clamping ones visit the link at
   the index clamped into [1, links.length]. *)
C2_Amended ==
  \A r \in Reqs :
    LET q == Req(r)
        n == ParseInt(q.index)
        k == IF n.v < 1 THEN 1
             ELSE IF n.v > Len(q.galleryLinks) THEN Len(q.galleryLinks) ELSE n.v
    IN  /\ variant \in Validating /\ q.found /\ OutOfRange(q) =>
             q.pc = "done" /\ q.resp.status = 400 /\ q.target = <<>>
        /\ variant \notin Validating => q.resp.status # 400
        /\ variant \in Clamping /\ q.pc = "gallery" /\ ~n.nan =>
             q.target = <<q.galleryLinks[k]>>

(* An index above the number of discovered links was answered 400. *)
C2_Witness ==
  \E r \in Reqs :
    /\ Req(r).resp.status = 400 /\ Len(Req(r).galleryLinks) >= 1
    /\ ~ParseInt(Req(r).index).nan
    /\ ParseInt(Req(r).index).v > Len(Req(r).galleryLinks)

(* C3: when the handler has sent its response, whatever the status, no
   browser launched by the request is still open. *)
C3_BrowserClosed ==
  \A r \in Reqs : Responded(Req(r)) => Req(r).open = 0

(* C4: a request that finds a non-empty cached list is answered at once
   with 200, the cached list as album and source "cache"; it launches no
   browser and leaves the cache as it was. *)
C4_CacheHit ==
  [][\A r \in Reqs :
       LET n == rq'[r]
           f == CacheFile(variant, n.model, n.index)
       IN  (/\ n.id # rq[r].id /\ UsesCache(variant)
            /\ f \in DOMAIN cache /\ cache[f].json # <<>>) =>
             /\ n.pc = "done" /\ n.resp.status = 200
             /\ n.resp.album = cache[f].json
             /\ n.resp.total = Len(cache[f].json)
             /\ n.resp.source = "cache"
             /\ n.attempts = 0 /\ n.open = 0 /\ ~n.wrote
             /\ cache' = cache]_vars

(* A request was answered from a cached one-element list. *)
C4_Witness ==
  \E r \in Reqs :
    /\ Req(r).seen = "list" /\ Req(r).resp.source = "cache"
    /\ Len(Req(r).resp.album) = 1

(* C5 as stated: when no attempt produced an image the empty list is in
   the cache file and the answer is 404 with an error and a suggestion. *)
C5_Original ==
  \A r \in Reqs :
    NoImage(Req(r)) =>
      /\ Req(r).resp.status = 404
      /\ {"error", "suggestion"} \subseteq Req(r).resp.fields
      /\ ReadJson(cache, KeyFile(Req(r))) = [ok |-> TRUE, val |-> <<>>]

(* C5 amended: when no attempt produced an image, part_000, part_001
   (first) and part_004 (first) write the empty list and answer 404 with
   error and suggestion; part_001 (second) and part_002 write the empty list
   and answer 404 with an error but no suggestion; server.js (first) and
   part_003 answer 404 with error and suggestion and write nothing; the
   demo variants write and serve the placeholder list with 200 when the
   last attempt threw, and otherwise write nothing and answer 404 without
   suggestion (server.js second) or 500 (part_004 second). *)
C5_Amended ==
  \A r \in Reqs :
    LET q == Req(r)
        rd == ReadJson(cache, KeyFile(q))
    IN  NoImage(q) =>
          /\ "error" \in q.resp.fields \/ q.resp.status = 200
          /\ variant \in {P0, P1A, P4A} =>
               /\ q.resp.status = 404 /\ "suggestion" \in q.resp.fields
               /\ q.wrote /\ rd = [ok |-> TRUE, val |-> <<>>]
          /\ variant \in {P1B, P2} =>
               /\ q.resp.status = 404 /\ "suggestion" \notin q.resp.fields
               /\ q.wrote /\ rd = [ok |-> TRUE, val |-> <<>>]
          /\ variant \in {SA, P3} =>
               /\ q.resp.status = 404 /\ "suggestion" \in q.resp.fields
               /\ ~q.wrote
          /\ variant \in {SB, P4B} =>
               IF q.images # <<>>
                 THEN /\ q.resp.status = 200 /\ q.wrote
                      /\ q.resp.album = q.images /\ Len(q.images) = 3
                      /\ \A i \in 1..3 : q.images[i].url.host = "picsum.photos"
                      /\ rd = [ok |-> TRUE, val |-> q.images]
                 ELSE /\ ~q.wrote /\ "suggestion" \notin q.resp.fields
                      /\ q.resp.status = IF variant = SB THEN 404 ELSE 500

(* Three failed attempts ended in the 404 and the cached empty list. *)
C5_Witness ==
  \E r \in Reqs :
    /\ NoImage(Req(r)) /\ Req(r).attempts = 3
    /\ Req(r).resp.status = 404 /\ Req(r).wrote

(* C6: when a request answers 200 with a freshly scraped album L, the
   cache file of its key then reads back as exactly L; and a request that
   finds a non-empty list in the cache file of its key answers 200 with
   that list, records and order unchanged. *)
C6_RoundTrip ==
  [][\A r \in Reqs :
       LET n == rq'[r]
           f == CacheFile(variant, n.model, n.index)
       IN  /\ (/\ rq[r].pc = "loop" /\ n.pc = "done"
               /\ n.resp.status = 200 /\ "album" \in n.resp.fields) =>
                ReadJson(cache', f) = [ok |-> TRUE, val |-> n.resp.album]
           /\ (/\ n.id # rq[r].id
               /\ ReadJson(cache, f).ok /\ ReadJson(cache, f).val # <<>>) =>
                /\ n.resp.status = 200
                /\ n.resp.album = ReadJson(cache, f).val]_vars

(* A second request was served the cached two-record list of distinct
   images. *)
C6_Witness ==
  \E r \in Reqs :
    /\ Req(r).id = 2 /\ Req(r).seen = "list" /\ Req(r).resp.status = 200
    /\ Len(Req(r).resp.album) = 2
    /\ Req(r).resp.album[1].url # Req(r).resp.album[2].url
    /\ ReadJson(cache, KeyFile(Req(r))).val = Req(r).resp.album

(* C7 as stated: every 200 response carries model, index, album and total,
   and total is the number of records of album. *)
C7_Original ==
  \A r \in Reqs :
    Req(r).resp.status = 200 =>
      /\ {"model", "index", "album", "total"} \subseteq Req(r).resp.fields
      /\ Req(r).resp.total = Len(Req(r).resp.album)

(* C7 amended: every 200 response of every variant but part_003 carries
   model, index, album and total with total the number of records of album;
   the 200 response of part_003 carries model, index, count and images with
   count the number of images. *)
C7_Amended ==
  \A r \in Reqs :
    LET p == Req(r).resp
    IN  p.status = 200 =>
          IF variant = P3
            THEN /\ p.fields = {"model", "index", "count", "images"}
                 /\ p.count = Len(p.images)
            ELSE /\ {"model", "index", "album", "total"} \subseteq p.fields
                 /\ p.total = Len(p.album)

(* A freshly scraped album of two records was returned. *)
C7_Witness ==
  \E r \in Reqs :
    /\ Req(r).resp.status = 200 /\ Req(r).resp.source = "ahottie.net"
    /\ Req(r).resp.total = 2

(* C8 as stated: a 400 ends the request on the attempt that discovered the
   links, nothing was written to the cache, and the body carries the number
   of discovered links. *)
C8_Original ==
  \A r \in Reqs :
    Req(r).resp.status = 400 =>
      /\ Req(r).pc = "done" /\ Req(r).found /\ ~Req(r).wrote
      /\ "links_found" \in Req(r).resp.fields
      /\ Req(r).resp.links_found = Len(Req(r).galleryLinks)

(* C8 amended: as stated, except that the 400 body of part_000 holds only
   the error message and no link count. *)
C8_Amended ==
  \A r \in Reqs :
    Req(r).resp.status = 400 =>
      /\ Req(r).pc = "done" /\ Req(r).found /\ ~Req(r).wrote
      /\ IF variant = P0
           THEN Req(r).resp.fields = {"error"}
           ELSE /\ "links_found" \in Req(r).resp.fields
                /\ Req(r).resp.links_found = Len(Req(r).galleryLinks)

(* A 400 on the second attempt reported one discovered link. *)
C8_Witness ==
  \E r \in Reqs :
    /\ Req(r).resp.status = 400 /\ Req(r).attempts = 2
    /\ Req(r).resp.links_found = 1

(* C9: a request makes at most 3 attempts (2 in the server.js and part_004
   variants); an attempt is started only while no image has been collected,
   so none follows an attempt that produced a non-empty list. *)
C9_BoundedRetry ==
  [][\A r \in Reqs :
       (rq'[r].id = rq[r].id /\ rq'[r].attempts # rq[r].attempts) =>
         /\ rq'[r].attempts = rq[r].attempts + 1
         /\ rq'[r].attempts <= (IF variant \in {P0, P1A, P1B, P2} THEN 3 ELSE 2)
         /\ rq[r].imageUrls = <<>> /\ rq[r].images = <<>>]_vars

(* A request stopped after a second attempt that found images. *)
C9_Witness ==
  \E r \in Reqs :
    /\ Req(r).pc = "done" /\ Req(r).attempts = 2 /\ variant = P0
    /\ Req(r).resp.status = 200

(* C10 as stated: when every attempt failed at the browser launch or a
   navigation, the attempts were as many as the cap and the answer is 404
   or 500. *)
C10_Original ==
  \A r \in Reqs :
    (Req(r).pc = "done" /\ Req(r).attempts >= 1 /\ Req(r).navOnly) =>
      /\ Req(r).attempts = maxAttempts(variant)
      /\ Req(r).resp.status \in {404, 500}

(* C10 amended: when every attempt failed at the browser launch or a
   navigation, the attempts were as many as the cap (3, 2, or the single
   attempt of part_003); the answer is 404, except in the two demo variants
   (server.js second, part_004 second), which answer 200 with the three
   placeholder records and source "demo" or "demo_fallback". *)
C10_Amended ==
  \A r \in Reqs :
    LET q == Req(r)
    IN  (q.pc = "done" /\ q.attempts >= 1 /\ q.navOnly) =>
          /\ q.attempts = (IF variant \in {P0, P1A, P1B, P2} THEN 3
                           ELSE IF variant = P3 THEN 1 ELSE 2)
          /\ IF variant \in {SB, P4B}
               THEN /\ q.resp.status = 200 /\ Len(q.resp.album) = 3
                    /\ q.resp.source = (IF variant = SB THEN "demo" ELSE "demo_fallback")
               ELSE q.resp.status = 404

(* Three attempts that all failed to navigate ended in 404. *)
C10_Witness ==
  \E r \in Reqs :
    /\ Req(r).pc = "done" /\ Req(r).navOnly /\ Req(r).attempts = 3
    /\ Req(r).resp.status = 404

(* The handler of another route took this step. *)
EpStep == ep' # ep

(* The route parameters of the request ep name no cache file. *)
NoEntry(e) == ~FileExists(cache, CacheFile(variant, e.model, e.index))

(* C11 as stated: /api/nsfw never launches a browser and never touches the
   cache, and answers 404 HTML when the cache has no entry for its
   (model, index). *)
C11_Original ==
  [][(EpStep /\ ep'.route = "nsfw") =>
       /\ ep'.launched = 0
       /\ cache' = cache
       /\ (ep'.pc = "done" /\ NoEntry(ep')) =>
            (ep'.resp.status = 404 /\ ep'.resp.type = "html")]_vars

(* C11 amended: in every variant but part_003, /api/nsfw launches no
   browser and leaves the cache as it is; with no cache entry for
   (model, index), part_000, the second part_001 variant, part_002 and the
   first part_004 variant answer 404 HTML, while the server.js variants and
   the second part_004 variant answer the "no cached images" page with
   status 200.  part_003 sends a file of the model's cache folder when
   there is one; otherwise it launches a browser, scrapes, and either
   stores and sends the first image, or answers 404 or 500 (JSON) and
   stores nothing. *)
C11_Amended ==
  [][(EpStep /\ ep'.route = "nsfw") =>
       /\ variant # P3 => (ep'.launched = 0 /\ cache' = cache)
       /\ (variant \in {P0, P1B, P2, P4A} /\ NoEntry(ep')) =>
            (ep'.pc = "done" /\ ep'.resp.status = 404 /\ ep'.resp.type = "html")
       /\ (variant \in {SA, SB, P4B} /\ NoEntry(ep')) =>
            (ep'.pc = "done" /\ ep'.resp.status = 200 /\ ep'.resp.page = "nocache")
       /\ variant = P3 =>
            /\ (ep.pc # "launch" /\ ep'.launched >= 1) =>
                 Folder(cache, Sanitize(ep'.model)) = {}
            /\ cache' # cache =>
                 /\ ep'.launched = 1 /\ ep'.resp.status = 200
                 /\ ep'.sent = NsfwFile(ep'.model, ep'.index)
                 /\ cache' = WriteFile(cache, ep'.sent, [img |-> ep'.urls[1]])
            /\ ep'.resp.status \in {404, 500} =>
                 (cache' = cache /\ ep'.resp.type = "json")
            /\ ep'.resp.status = 200 =>
                 (ep'.resp.type = "file" /\ FileExists(cache', ep'.sent))]_vars

C11_Witness ==
  /\ ep.route = "nsfw" /\ ep.pc = "done" /\ ep.id = 2
  /\ NoEntry(ep) /\ cache # << >>
  /\ ep.resp.status = 404 /\ ep.resp.type = "html"

(* C12: in /api/bulk-download every image of the processed list is taken
   once, in order, and counted either as downloaded or as failed; at the
   response downloaded + failed = total; and only an image whose file was
   already there or whose fetch succeeded is counted as downloaded. *)
C12_Original ==
  (ep.route = "bulk" /\ ep.pc \in {"fetch", "done"}) =>
    /\ ep.downloaded + Len(ep.failed) = Len(ep.log)
    /\ ep.downloaded = Cardinality({k \in 1..Len(ep.log) : ep.log[k] \in {"had", "ok"}})
    /\ (ep.pc = "done" /\ ep.resp.status = 200 /\ FetchesToDisk(variant)) =>
         /\ Len(ep.log) = Len(ep.todo)
         /\ ep.resp.downloaded + ep.resp.failed = ep.resp.total

(* The image lists the album route has produced: the JSON lists in the
   cache and the albums of the responses. *)
Lists ==
  {cache[f].json : f \in {g \in DOMAIN cache : "json" \in DOMAIN cache[g]}}
    \cup {rq[r].resp.album : r \in Reqs}

(* Record i has id i and a name made of a prefix, i and an extension. *)
Numbered(list) ==
  \A i \in 1..Len(list) : list[i].id = i /\ list[i].name[2] = i

ThumbIsUrl(list) == \A i \in 1..Len(list) : list[i].thumb = list[i].url

(* C13 as stated: every list written to the cache or returned as album has
   ids 1..n in order, names numbered alike, and thumb equal to url in
   every record. *)
C13_Original == \A list \in Lists : Numbered(list) /\ ThumbIsUrl(list)

(* C13 amended: every list written to the cache or returned as album has
   ids 1..n in order and names numbered alike; thumb equals url in every
   record of a scraped list, while the three placeholder records of the
   demo fallback (second server.js variant, second part_004 variant) carry
   a smaller picture of the same number as thumb. *)
C13_Amended ==
  \A list \in Lists :
    /\ Numbered(list)
    /\ \/ ThumbIsUrl(list)
       \/ /\ variant \in {SB, P4B} /\ Len(list) = 3
          /\ \A i \in 1..3 :
               /\ list[i].url = Picsum("800/600", i)
               /\ list[i].thumb = Picsum("400/300", i)

C13_Witness ==
  \E r \in Reqs :
    /\ rq[r].id = 2 /\ rq[r].resp.source = "cache"
    /\ rq[r].resp.album = DemoImages(variant)
    /\ ~ThumbIsUrl(ReadJson(cache, KeyFile(rq[r])).val)

(* The cache file f holds what a request with the parameters of q stored. *)
StoredBy(f, q) ==
  f \in DOMAIN stored /\ stored[f] = CacheKey(variant, q.model, q.index)

(* C14: whenever a response is produced from a cache entry (an album
   served from the cache, a gallery page, a cached file sent, a download
   list), that entry was stored by a request with the same model and the
   same index. *)
C14_Original ==
  [][/\ \A r \in Reqs :
          (rq'[r].id # rq[r].id /\ rq'[r].resp.source = "cache") =>
            StoredBy(KeyFile(rq'[r]), rq'[r])
     /\ (EpStep /\ ep'.id # ep.id /\ ep'.route \in {"nsfw", "bulk"}) =>
          /\ (ep'.resp.status = 200 /\ ep'.resp.page = "gallery") =>
               StoredBy(KeyFile(ep'), ep')
          /\ ep'.pc = "fetch" => StoredBy(KeyFile(ep'), ep')
          /\ (ep'.resp.status = 200 /\ ep'.resp.type = "json") =>
               StoredBy(KeyFile(ep'), ep')
          /\ (ep'.resp.status = 200 /\ ep'.resp.type = "file") =>
               StoredBy(ep'.sent, ep')]_vars

(* C15: a cache file that holds anything but the empty list is never
   removed or rewritten by a step of any route, and an album request whose
   key names such a file is answered at once from it. *)
C15_Immutable ==
  [][/\ \A f \in DOMAIN cache :
          cache[f] # Stringify(<<>>) => (f \in DOMAIN cache' /\ cache'[f] = cache[f])
     /\ \A r \in Reqs :
          LET f == KeyFile(rq'[r])
          IN  (/\ rq'[r].id # rq[r].id /\ UsesCache(variant)
               /\ f \in DOMAIN cache /\ cache[f] # Stringify(<<>>)) =>
                /\ rq'[r].pc = "done" /\ rq'[r].attempts = 0
                /\ rq'[r].resp.status = 200 /\ rq'[r].resp.source = "cache"
                /\ rq'[r].resp.album = cache[f].json]_vars

C15_Witness ==
  /\ ep.id = 2 /\ ep.route = "bulk" /\ ep.pc = "done" /\ ep.resp.downloaded = 2
  /\ KeyFile(ep) \in DOMAIN cache /\ Len(cache[KeyFile(ep)].json) = 2
  /\ stored[KeyFile(ep)] = <<ep.model, ep.index>>

Min(a, b) == IF a < b THEN a ELSE b

(* The list in the cache file that the request ep addresses. *)
Cached(e) == cache[KeyFile(e)].json

(* C17: in the first part_004 variant no cached or returned list has more
   than 20 records; with RENDER set a bulk download processes the first
   min(10, n) of the n cached images and reports that number as total,
   and /api/nsfw renders the first min(15, n); without RENDER both take
   all n. *)
C17_RenderLimits ==
  variant = P4A =>
    /\ \A list \in Lists : Len(list) <= 20
    /\ (ep.route = "bulk" /\ ep.pc = "done" /\ ep.resp.status = 200) =>
         LET n == Len(Cached(ep))
             k == IF render THEN Min(10, n) ELSE n
         IN  /\ ep.resp.total = k /\ Len(ep.log) = k
             /\ ep.todo = SubSeq(Cached(ep), 1, k)
    /\ (ep.route = "nsfw" /\ ep.pc = "done" /\ ep.resp.status = 200) =>
         LET n == Len(Cached(ep))
             k == IF render THEN Min(15, n) ELSE n
         IN  ep.resp.shown = SubSeq(Cached(ep), 1, k)

C17_Witness ==
  /\ variant = P4A /\ render
  /\ ep.route = "bulk" /\ ep.pc = "done" /\ ep.resp.total = 10
  /\ Len(Cached(ep)) = 20 /\ ep.resp.failed = 1

(* The response of an album request carries a source field. *)
HasSource(q) == q.resp.status = 200 /\ "source" \in q.resp.fields

(* C16 as stated: the source of every 200 album response is "cache" or the
   site's name, and it is "cache" exactly when no scrape attempt ran. *)
C16_Original ==
  \A r \in Reqs :
    rq[r].resp.status = 200 =>
      /\ rq[r].resp.source \in {"cache", "ahottie.net"}
      /\ rq[r].resp.source = "cache" <=> rq[r].attempts = 0

(* C16 amended: every 200 album response except part_003's has a source
   field; it is "cache" exactly when the request was answered from the
   cache without a scrape attempt; otherwise it is the site's name, or, in
   the two demo variants when the album is the placeholder list, "demo"
   (second server.js variant) or "demo_fallback" (second part_004
   variant).  part_003's 200 response has no source field. *)
C16_Amended ==
  \A r \in Reqs :
    rq[r].resp.status = 200 =>
      IF variant = P3 THEN "source" \notin rq[r].resp.fields
      ELSE /\ HasSource(rq[r])
           /\ rq[r].resp.source = "cache" <=> rq[r].attempts = 0
           /\ rq[r].attempts > 0 =>
                rq[r].resp.source =
                  IF variant \in {SB, P4B} /\ rq[r].resp.album = DemoImages(variant)
                    THEN (IF variant = SB THEN "demo" ELSE "demo_fallback")
                    ELSE "ahottie.net"

C16_Witness ==
  \E r \in Reqs :
    /\ variant = P4B /\ rq[r].id = 2 /\ rq[r].attempts = 0
    /\ rq[r].resp.source = "cache" /\ rq[r].resp.album[1].url = U1

(* Position of the first selector of the variant that matches anchor a. *)
Rank(v, a) ==
  CHOOSE k \in 1..Len(Selectors(v)) :
    /\ Matches(Selectors(v)[k], a)
    /\ \A j \in 1..(k - 1) : ~Matches(Selectors(v)[j], a)

(* Position of the first occurrence of a in the page. *)
First(page, a) ==
  CHOOSE k \in 1..Len(page) :
    page[k] = a /\ \A j \in 1..(k - 1) : page[j] # a

NoDuplicate(list) ==
  \A i, j \in 1..Len(list) : i # j => list[i] # list[j]

(* The links come by selector priority and, under one selector, in the
   order of their first occurrence in the page. *)
InPriorityOrder(v, page, links) ==
  \A i, j \in 1..Len(links) :
    (i < j /\ links[i] # links[j]) =>
      \/ Rank(v, links[i]) < Rank(v, links[j])
      \/ /\ Rank(v, links[i]) = Rank(v, links[j])
         /\ First(page, links[i]) < First(page, links[j])

(* The gallery an attempt goes to is the i-th link, i the parsed index. *)
VisitsIndexed(q) ==
  LET n == ParseInt(q.index)
  IN  (q.pc = "gallery" /\ ~n.nan /\ n.v >= 1 /\ n.v <= Len(q.galleryLinks)) =>
        q.target = <<q.galleryLinks[n.v]>>

(* C20 as stated: the link list built from any search page has no
   duplicate, is in selector-priority and first-occurrence order, and the
   gallery visited for a valid index i is its i-th element. *)
C20_Original ==
  /\ \A page \in SearchPages :
       LET links == GalleryLinks(variant, page)
       IN  NoDuplicate(links) /\ InPriorityOrder(variant, page, links)
  /\ \A r \in Reqs : NoDuplicate(rq[r].galleryLinks) /\ VisitsIndexed(rq[r])

(* C20 amended: the link list is in selector-priority and first-occurrence
   order and the gallery visited for a valid index i is its i-th element
   in every variant; the list has no duplicate in every variant except the
   second server.js variant and part_003, which keep every matching anchor
   (so an index can select a repeated link). *)
C20_Amended ==
  /\ \A page \in SearchPages :
       LET links == GalleryLinks(variant, page)
       IN  /\ variant \notin {SB, P3} => NoDuplicate(links)
           /\ InPriorityOrder(variant, page, links)
           /\ variant \in {SB, P3} =>
                links = SelectSeq(page, LAMBDA a : Matches(Selectors(variant)[1], a))
  /\ \A r \in Reqs :
       /\ variant \notin {SB, P3} => NoDuplicate(rq[r].galleryLinks)
       /\ VisitsIndexed(rq[r])

C20_Witness ==
  \E r \in Reqs :
    /\ variant = SA /\ rq[r].pc = "gallery" /\ rq[r].index = <<"2">>
    /\ rq[r].galleryLinks = <<A1, A2>> /\ rq[r].target = <<A2>>

SameKey(a, b) == a.model = b.model /\ a.index = b.index

(* What a request that finished its attempts put in the cache file: its
   album, or the empty list. *)
Written(q) == IF q.resp.status = 200 THEN q.resp.album ELSE <<>>

(* Both handler activations are over, for the same key, which neither
   found in the cache, and both ran attempts. *)
BothRan(a, b) ==
  /\ a.pc = "done" /\ b.pc = "done" /\ SameKey(a, b)
  /\ a.seen = "absent" /\ b.seen = "absent"
  /\ a.attempts >= 1 /\ b.attempts >= 1

(* C18: a request that arrives while another one is scraping the same,
   still uncached key misses the cache and scrapes too; a request that
   writes leaves exactly its own list in the cache file, so after two
   overlapping requests the file holds the list of the one that wrote
   last, whole, and never a mixture of the two. *)
C18_Original ==
  [][/\ \A r \in Reqs :
          /\ (/\ rq'[r].id # rq[r].id /\ UsesCache(variant)
              /\ ~FileExists(cache, KeyFile(rq'[r]))
              /\ \E s \in Reqs \ {r} : InFlight(rq[s]) /\ SameKey(rq[s], rq'[r])) =>
               (rq'[r].pc = "loop" /\ rq'[r].seen = "absent")
          /\ (rq[r].pc = "write" /\ rq'[r].pc = "done") =>
               /\ FileExists(cache', KeyFile(rq'[r]))
               /\ cache'[KeyFile(rq'[r])] = Stringify(Written(rq'[r]))
     /\ BothRan(rq'[1], rq'[2]) =>
          LET f == KeyFile(rq'[1])
              ws == {r \in Reqs : rq'[r].wrote}
          IN  IF ws = {} THEN ~FileExists(cache', f)
              ELSE /\ FileExists(cache', f)
                   /\ cache'[f] \in {Stringify(Written(rq'[r])) : r \in ws}]_vars

(* C19: a request never has more than one browser open; it launches the
   browser of an attempt only when the one of the attempt before is
   closed; and a step of one request leaves the browsers of the others
   as they are. *)
C19_OneBrowser ==
  [][\A r \in Reqs :
       /\ rq'[r].open <= 1
       /\ (rq'[r].id = rq[r].id /\ rq'[r].attempts # rq[r].attempts) => rq[r].open = 0
       /\ rq'[r] # rq[r] => \A s \in Reqs \ {r} : rq'[s].open = rq[s].open]_vars

C19_Witness ==
  /\ rq[1].open = 1 /\ rq[2].open = 1
  /\ rq[1].attempts = 2 /\ InFlight(rq[1]) /\ InFlight(rq[2])

(* A request was answered from the outer catch block with status 500. *)
Failed(q) == q.pc = "done" /\ q.resp.status = 500

(* The cache entry holds a list that a later request would be served. *)
Servable(e) == e # <<>> /\ "json" \in DOMAIN e[1] /\ CacheHit(e[1].json)

(* C21 as stated: a request that ended with a 500 response has left the
   cache entry of its key exactly as it was when the request arrived. *)
C21_Original ==
  \A r \in Reqs :
    Failed(Req(r)) => Entry(cache, KeyFile(Req(r))) = Req(r).before

(* C21 amended: a request that ended with a 500 response has stored no
   list in the cache entry of its key.  The entry is as it was when the
   request arrived, or, when it held no list that could be served, it is
   missing (part_001's first variant unlinks an empty list before it
   scrapes) or left without JSON text by the rejected write.  So the
   entry holds a non-empty list only if it held the same one before, and
   otherwise the next request for the key scrapes again. *)
C21_Amended ==
  \A r \in Reqs :
    LET q == Req(r)
        e == Entry(cache, KeyFile(q))
    IN  Failed(q) =>
          /\ \/ e = q.before
             \/ /\ ~Servable(q.before)
                /\ e = <<>> \/ e = <<Truncated>>
                /\ e = <<>> => (UnlinksEmpty(variant) /\ q.before = <<Stringify(<<>>)>>)
          /\ Servable(e) => e = q.before
          /\ ~q.wrote

(* part_001 (first): the request found the empty list, removed it, and
   ended with 500 when the write after the scrape was rejected. *)
C21_Witness ==
  \E r \in Reqs :
    /\ Failed(Req(r)) /\ Req(r).attempts >= 1
    /\ Req(r).before = <<Stringify(<<>>)>>
    /\ Entry(cache, KeyFile(Req(r))) = <<>>

(* The request scraped a non-empty list and stored it. *)
StoredList(q) ==
  q.pc = "done" /\ q.wrote /\ q.resp.status = 200 /\ q.resp.album # <<>>

(* C22: once a request has stored a non-empty list in the cache entry of
   a key, no overlapping request for the key replaces it by the empty
   list: the entry never holds the empty list afterwards. *)
C22_Original ==
  \A r \in Reqs :
    StoredList(Req(r)) => Entry(cache, KeyFile(Req(r))) # <<Stringify(<<>>)>>

(* C24: the scroll loop stops on every page: the variants with a counter
   after at most 60 steps (exactly 20 in the first part_004 variant), and
   the other variants after finitely many steps too, even on a page that
   grows each time it is scrolled. *)
C24_Original ==
  /\ [](HasCounter(variant) => scroll.scrollCount <= maxScrolls(variant))
  /\ [](variant = P4A /\ scroll.pc = "done" => scroll.scrollCount = 20)
  /\ (scroll.pc = "run") ~> (scroll.pc = "done")

(* A list that holds a placeholder record. *)
HasPlaceholder(list) ==
  \E i \in 1..Len(list) : list[i].url.host = "picsum.photos"

(* C25: no cache file ever holds the placeholder list of the demo
   fallback, and no request is served placeholders from the cache. *)
C25_Original ==
  /\ \A f \in DOMAIN cache :
       "json" \in DOMAIN cache[f] => ~HasPlaceholder(cache[f].json)
  /\ \A r \in Reqs :
       Req(r).resp.source = "cache" => ~HasPlaceholder(Req(r).resp.album)

(* The k-th image of a bulk download was counted as downloaded. *)
Counted(k) == ep.log[k] = "had" \/ Saves(variant, ep.log[k])

(* C26: every image that a bulk download has counted as downloaded is a
   file of the model's download directory whose content was fetched from
   the url of that image's record, also when another gallery of the
   model was downloaded before. *)
C26_Original ==
  ep.route = "bulk" =>
    \A k \in 1..Len(ep.log) :
      Counted(k) =>
        LET path == <<"downloads", ep.model, ep.todo[k].name>>
        IN  /\ FileExists(downloads, path)
            /\ downloads[path].from = ep.todo[k].url

(* C27: a bulk-download request for a key that has no cache file is
   answered 404 at once: no URL is fetched, no file is written in the
   downloads directory, and the answer is never 500. *)
C27_Original ==
  [][(ep'.id # ep.id /\ ep'.route = "bulk" /\ NoEntry(ep')) =>
       /\ ep'.pc = "done"
       /\ ep'.resp.status = 404
       /\ ep'.log = <<>>
       /\ downloads' = downloads]_vars

(* Every attempt of the request completed without an error, and none
   of them gave an image. *)
CleanButEmpty(q) ==
  /\ q.pc = "done" /\ q.attempts >= 1 /\ ~q.threw
  /\ q.resp.status # 400
  /\ Album(variant, q) = <<>>

(* C28: every 200 response of the album route carries a non-empty album,
   and a request whose attempts all completed without error and gave no
   image is answered 404. *)
C28_Original ==
  \A r \in Reqs :
    /\ Req(r).resp.status = 200 =>
         IF variant = P3 THEN Req(r).resp.count >= 1
         ELSE Len(Req(r).resp.album) >= 1 /\ Req(r).resp.total >= 1
    /\ CleanButEmpty(Req(r)) => Req(r).resp.status = 404

(* C23: no handler of /api/album, /api/nsfw, /api/bulk-download or
   /downloads/:model finishes without having sent a response, also when a
   filesystem call rejects: an activation that has ended has answered,
   and none has ended by a rejection of the handler's promise. *)
C23_Original ==
  /\ \A r \in Reqs : Req(r).pc = "done" => Responded(Req(r))
  /\ ep.pc = "done" => ep.resp.status # 0
  /\ ep.pc # "rejected"

====
